---- MODULE Spec2Model ----
(***************************************************************************)
(* Model of adaptor/basic_adaptor.py: the adaptors that turn a verifier    *)
(* backend into verify(input, label, norm_type, radius) -> bool.           *)
(*                                                                         *)
(* One adaptor instance is modelled.  Init is the state right after the    *)
(* constructor; each action is one whole verify call of the instance's     *)
(* class.  The collaborators that are not part of this file (classifier,   *)
(* model_transform, bound engines, cvxpy solver, PGD attack) are the       *)
(* environment: what they answer is drawn with \E, what the adaptor asks   *)
(* them is recorded, call by call, in trace.                               *)
(*                                                                         *)
(* Spec is that machine.  SpecNorm draws the normalization layer from a    *)
(* larger set and applies input_preprocess to single pixels; SpecProcess   *)
(* adds the construction of further MILP / SDP adaptors in the process;    *)
(* SpecFault adds verify calls in which a collaborator's constructor       *)
(* raises.                                                                 *)
(***************************************************************************)
EXTENDS Integers, Sequences, FiniteSets, TLC

\* ------------------------------------------------------------- bounds
NumClasses == 3      \* get_num_classes(self.dataset)
MaxCalls == 2        \* verify calls made on the instance

\* self.coef = 1.0: means, standard deviations, pixels and coef are written
\* in quarters
UnitCoef == 4

\* the normalization layers drawn for the input interval: two channels,
\* means from -MeanSpan to UnitCoef + MeanSpan, sds from 1 to MaxSd
MeanSpan == 2
MaxSd == 3

\* timeout=30, the default of the MILP and SDP constructors
DefaultTimeout == 30
Timeouts == {DefaultTimeout, 2 * DefaultTimeout}

Classes == 0 .. (NumClasses - 1)
\* The code looks at a radius only to compare it with 0 and to divide it by
\* coef: one zero and one positive radius, the positive one with a positive
\* radius below it
Radii == {0, 2}
Norms == {"inf", "2"}

Kinds == {"CleanAdaptor", "PGDAdaptor", "FastLinIBPAdaptor", "IBPAdaptor",
          "MILPAdaptor", "PercySDPAdaptor"}
RealKinds == {"FastLinIBPAdaptor", "IBPAdaptor", "MILPAdaptor", "PercySDPAdaptor"}
SolverKinds == {"MILPAdaptor", "PercySDPAdaptor"}

\* The caller's model: norm says model[0] is a NormalizeLayer, seq says
\* model[1] is an nn.Sequential, orig_means and orig_sds are the layer's
\* per-channel means and sds.
Models ==
    { [norm |-> FALSE, seq |-> FALSE, orig_means |-> << >>, orig_sds |-> << >>],
      [norm |-> TRUE,  seq |-> TRUE,  orig_means |-> <<2, 1>>, orig_sds |-> <<2, 3>>],
      [norm |-> TRUE,  seq |-> FALSE, orig_means |-> <<1, 3>>, orig_sds |-> <<8, 4>>] }

\* The models behind any two-channel normalization layer of the bounds
NormModels ==
    { [norm |-> FALSE, seq |-> FALSE, orig_means |-> << >>, orig_sds |-> << >>] }
    \cup { [norm |-> TRUE, seq |-> TRUE, orig_means |-> <<m1, m2>>,
            orig_sds |-> <<s1, s2>>] :
              m1 \in (0 - MeanSpan) .. (UnitCoef + MeanSpan),
              m2 \in (0 - MeanSpan) .. (UnitCoef + MeanSpan),
              s1 \in 1 .. MaxSd, s2 \in 1 .. MaxSd }

\* An input is a (channels, height, width) tensor; pix stands for its
\* content, which is all the classifier's answer depends on.
Shapes == { <<1, 1, 1>>, <<1, 2, 2>> }
Inputs == [shape : Shapes, pix : 0 .. 1]

NoneV == [cls |-> "None"]
NoBounds == [set |-> FALSE]
NoPixel == [set |-> FALSE]

VARIABLES
    kind,        \* the adaptor's class
    model,       \* self.model, the caller's model
    coef,        \* self.coef, in units of 1/UnitCoef
    in_min,      \* self.in_min, a fraction <<numerator, denominator>>
    in_max,      \* self.in_max, a fraction
    new_model,   \* self.new_model
    bound,       \* self.bound
    prebound,    \* self.prebound (MILP, SDP)
    ncalls,      \* verify calls made so far
    firstInf,    \* index of the first call with norm_type 'inf', 0 if none
    initlog,     \* model_transform / prepare_solver runs over the lifetime
    call,        \* arguments of the last verify call
    trace,       \* what the last verify call asked its collaborators
    ret,         \* how the last verify call ended
    px,          \* the last pixel normalized by input_preprocess
    solve_time,  \* cp.settings.SOLVE_TIME, one per process
    solve_reads  \* the values of SOLVE_TIME that solves have run under

vars == <<kind, model, coef, in_min, in_max, new_model, bound, prebound, ncalls,
          firstInf, initlog, call, trace, ret, px, solve_time, solve_reads>>

\* ------------------------------------------------------------ helpers
RECURSIVE SeqMin(_)
SeqMin(s) ==
    IF Len(s) = 1 THEN s[1]
    ELSE LET m == SeqMin(Tail(s)) IN IF s[1] <= m THEN s[1] ELSE m

RECURSIVE SeqMax(_)
SeqMax(s) ==
    IF Len(s) = 1 THEN s[1]
    ELSE LET m == SeqMax(Tail(s)) IN IF s[1] >= m THEN s[1] ELSE m

\* a <= b for fractions with positive denominators
Leq(a, b) == a[1] * b[2] <= b[1] * a[2]

\* The interval with the two divisors exchanged
RealAdaptorBase_init_swapped(m) ==
    IF ~m.norm THEN [in_min |-> <<0, 1>>, in_max |-> <<1, 1>>]
    ELSE LET lo == 0 - SeqMax(m.orig_means)
             hi == UnitCoef - SeqMin(m.orig_means)
         IN  [in_min |-> IF lo <= 0 THEN <<lo, SeqMax(m.orig_sds)>>
                         ELSE <<lo, SeqMin(m.orig_sds)>>,
              in_max |-> IF hi <= 0 THEN <<hi, SeqMin(m.orig_sds)>>
                         ELSE <<hi, SeqMax(m.orig_sds)>>]

\* RealAdaptorBase.__init__, lines 109-121: the interval of the normalized
\* inputs; [0.0, 1.0] without a NormalizeLayer
RealAdaptorBase_init(m) ==
    IF ~m.norm THEN [in_min |-> <<0, 1>>, in_max |-> <<1, 1>>]
    ELSE LET lo == 0 - SeqMax(m.orig_means)
             hi == UnitCoef - SeqMin(m.orig_means)
         IN  [in_min |-> IF lo <= 0 THEN <<lo, SeqMin(m.orig_sds)>>
                         ELSE <<lo, SeqMax(m.orig_sds)>>,
              in_max |-> IF hi <= 0 THEN <<hi, SeqMax(m.orig_sds)>>
                         ELSE <<hi, SeqMin(m.orig_sds)>>]

\* input_preprocess on the pixel x of channel c: (x - mean_c) / sd_c behind a
\* NormalizeLayer, x itself otherwise
Normalize(m, c, x) ==
    IF m.norm THEN <<x - m.orig_means[c], m.orig_sds[c]>> ELSE <<x, UnitCoef>>

\* coef taken from the largest standard deviation
BasicAdaptor_init_max(m) == IF m.norm THEN SeqMax(m.orig_sds) ELSE UnitCoef

\* BasicAdaptor.__init__: coef = 1.0, or min(orig_sds) behind a NormalizeLayer
BasicAdaptor_init(m) == IF m.norm THEN SeqMin(m.orig_sds) ELSE UnitCoef

\* radius / self.coef, kept as the fraction <<numerator, denominator>>
MRadius(radius, c) == <<radius * UnitCoef, c>>

\* np.argmax(self.model(xs)[0]): the classifier is a collaborator, a fixed
\* function of the input's content
Predict(m, input) == input.pix

Log(self, e) == [self EXCEPT !.trace = Append(@, e)]
Return(self, v) == [self EXCEPT !.ret = v]

\* the forward evaluation of the unperturbed model on the raw input
CleanPred(self, input) == Log(self, [op |-> "model", input |-> input])

\* ------------------------------------------- RealAdaptorBase helpers
\* build_new_model: model_transform of model[1] behind a NormalizeLayer that
\* is followed by an nn.Sequential, of the whole model otherwise
build_new_model(self, input, fault) ==
    LET part == IF self.model.norm /\ self.model.seq THEN "model[1]" ELSE "model"
        nm == [cls |-> "model_transform", of |-> part, shape |-> input.shape]
        s == Log(self, [op |-> "model_transform", of |-> part, shape |-> input.shape])
    IN  IF fault = "model_transform" THEN Return(s, "Exception")
        ELSE [s EXCEPT !.new_model = nm]

\* The channels of (input - means) / sds, means and sds repeated to
\* (channels of the layer, height, width): the input's single channel is
\* broadcast over the layer's channels.  (Channel counts that differ and are
\* both above one make the subtraction raise; no input of Shapes has them.)
Broadcast(c, n) == IF c = 1 THEN n ELSE c

\* input_preprocess: (input - means) / sds behind a NormalizeLayer, the input
\* itself otherwise
input_preprocess(self, input) ==
    IF self.model.norm
    THEN [shape |-> << Broadcast(input.shape[1], Len(self.model.orig_means)),
                       input.shape[2], input.shape[3] >>,
          pix |-> input.pix, normalized |-> TRUE]
    ELSE [shape |-> input.shape, pix |-> input.pix, normalized |-> FALSE]

\* input.contiguous().view(-1)
Flatten(input) ==
    [input EXCEPT !.shape = << input.shape[1] * input.shape[2] * input.shape[3] >>]

\* a bound engine as its constructor leaves it: no bounds computed yet
Engine(cls, nm, in_shape) ==
    [cls |-> cls, model |-> nm, in_shape |-> in_shape, cur |-> NoBounds]

PrepareLog(self, in_shape) ==
    Log(self, [op |-> "prepare_solver", in_shape |-> in_shape])

\* A collaborator's constructor may raise; fault names the one that does in
\* this call ("none": no one).  The exception leaves verify at once.
Faults == {"none", "model_transform", "prebound", "bound"}
Raised(self) == self.ret = "Exception"

FastLinIBPAdaptor_prepare_solver(self, in_shape, fault) ==
    IF fault = "bound" THEN Return(PrepareLog(self, in_shape), "Exception")
    ELSE [PrepareLog(self, in_shape) EXCEPT
            !.bound = Engine("IntervalFastLinBound", self.new_model, in_shape)]

IBPAdaptor_prepare_solver(self, in_shape, fault) ==
    LET part == IF self.model.norm /\ self.model.seq THEN "model[1]" ELSE "model"
        nm == [cls |-> "raw", of |-> part, shape |-> << >>]
        s == [PrepareLog(self, in_shape) EXCEPT !.new_model = nm]
    IN  IF fault = "bound" THEN Return(s, "Exception")
        ELSE [s EXCEPT !.bound = Engine("FastIntervalBound", nm, in_shape)]

MILPAdaptor_prepare_solver(self, in_shape, fault) ==
    LET s == PrepareLog(self, in_shape)
        p == [s EXCEPT !.prebound =
                 Engine("IntervalFastLinBound", self.new_model, in_shape)]
    IN  IF fault = "prebound" THEN Return(s, "Exception")
        ELSE IF fault = "bound" THEN Return(p, "Exception")
        ELSE [p EXCEPT !.bound = Engine("MILPVerifier", self.new_model, in_shape)]

PercySDPAdaptor_prepare_solver(self, in_shape, fault) ==
    LET s == PrepareLog(self, in_shape)
        p == [s EXCEPT !.prebound =
                 Engine("IntervalFastLinBound", self.new_model, in_shape)]
    IN  IF fault = "prebound" THEN Return(s, "Exception")
        ELSE IF fault = "bound" THEN Return(p, "Exception")
        ELSE [p EXCEPT !.bound = Engine("PercySDP", self.new_model, in_shape)]

\* Bounds computed only when the engine has none yet, kept afterwards
calculate_bound_once(self, which, input, m_radius) ==
    LET b == [set |-> TRUE, input |-> input, radius |-> m_radius]
        s == Log(self, [op |-> "calculate_bound", on |-> which,
                        engine |-> self[which].cls, built_for |-> self[which].in_shape,
                        input |-> input, radius |-> m_radius])
    IN  IF self[which].cur.set THEN self
        ELSE IF which = "bound" THEN [s EXCEPT !.bound.cur = b]
                                ELSE [s EXCEPT !.prebound.cur = b]

\* engine.calculate_bound(input, radius) on self.bound or self.prebound:
\* the engine's bounds are replaced by those of this input and radius
calculate_bound(self, which, input, m_radius) ==
    LET b == [set |-> TRUE, input |-> input, radius |-> m_radius]
        s == Log(self, [op |-> "calculate_bound", on |-> which,
                        engine |-> self[which].cls, built_for |-> self[which].in_shape,
                        input |-> input, radius |-> m_radius])
    IN  IF which = "bound" THEN [s EXCEPT !.bound.cur = b]
                           ELSE [s EXCEPT !.prebound.cur = b]

\* self.bound.construct(self.prebound.l, self.prebound.u, input, m_radius)
construct(self, input, m_radius) ==
    LET lu == self.prebound.cur
        s == Log(self, [op |-> "construct", lu |-> lu, built_for |-> self.bound.in_shape,
                        input |-> input, radius |-> m_radius])
    IN  [s EXCEPT !.bound.cur = [set |-> TRUE, input |-> input, radius |-> m_radius]]

\* ------------------------------------------------ the pairwise loops
\* What the environment answers to the pairwise query of class i in this
\* call: env[i + 1].  A bound engine answers ok; a solve answers a status
\* and a value, which is undefined (def = FALSE) when the solver has none.
Answer(env, i) == env[i + 1]

\* The loop with "all classes must pass" turned into "one class passes"
RECURSIVE BoundLoop_any(_, _, _, _)
BoundLoop_any(self, i, label, env) ==
    IF i >= NumClasses THEN Return(self, "False")
    ELSE IF i # label
         THEN LET ok == Answer(env, i).ok
                  s == Log(self, [op |-> "verify", label |-> label, i |-> i,
                                  reads |-> self.bound.cur, ok |-> ok])
              IN  IF ok THEN Return(s, "True")
                  ELSE BoundLoop_any(s, i + 1, label, env)
         ELSE BoundLoop_any(self, i + 1, label, env)

\* The loop without its early return: a failure is remembered, the
\* remaining classes are still queried
RECURSIVE BoundLoop_noshort(_, _, _, _)
BoundLoop_noshort(self, i, label, env) ==
    IF i >= NumClasses
    THEN (IF self.ret = "False" THEN self ELSE Return(self, "True"))
    ELSE IF i # label
         THEN LET ok == Answer(env, i).ok
                  s == Log(self, [op |-> "verify", label |-> label, i |-> i,
                                  reads |-> self.bound.cur, ok |-> ok])
              IN  BoundLoop_noshort(IF ok THEN s ELSE Return(s, "False"),
                                    i + 1, label, env)
         ELSE BoundLoop_noshort(self, i + 1, label, env)

\* lines 169-174 (and 216-221): bound.verify(label, i) for every i # label
RECURSIVE BoundLoop(_, _, _, _)
BoundLoop(self, i, label, env) ==
    IF i >= NumClasses THEN Return(self, "True")
    ELSE IF i # label
         THEN LET ok == Answer(env, i).ok
                  s == Log(self, [op |-> "verify", label |-> label, i |-> i,
                                  reads |-> self.bound.cur, ok |-> ok])
              IN  IF ~ok THEN Return(s, "False")
                  ELSE BoundLoop(s, i + 1, label, env)
         ELSE BoundLoop(self, i + 1, label, env)

\* line 280: prob.status not in ['optimal'] or prob.value < 0.
MILPRejects(o) ==
    IF o.status # "optimal" THEN "True"
    ELSE IF ~o.def THEN "TypeError"
    ELSE IF o.value < 0 THEN "True" ELSE "False"

\* Line 332 with >= for >: a value of exactly 0 rejected
SDPRejects_strict(o) ==
    IF o.status # "optimal" THEN "True"
    ELSE IF ~o.def THEN "TypeError"
    ELSE IF o.value >= 0 THEN "True" ELSE "False"

\* line 332: prob.status not in ['optimal'] or prob.value > 0.
SDPRejects(o) ==
    IF o.status # "optimal" THEN "True"
    ELSE IF ~o.def THEN "TypeError"
    ELSE IF o.value > 0 THEN "True" ELSE "False"

\* lines 276-282: prepare_verify(label, i), then prob.solve, for every i # label;
\* nothing catches what solve raises
RECURSIVE MILPLoop(_, _, _, _)
MILPLoop(self, i, label, env) ==
    IF i >= NumClasses THEN Return(self, "True")
    ELSE IF i # label
         THEN LET o == Answer(env, i)
                  p == Log(self, [op |-> "prepare_verify", label |-> label, i |-> i,
                                  reads |-> self.bound.cur])
                  s == Log(p, [op |-> "solve", label |-> label, i |-> i,
                               reads |-> self.bound.cur, status |-> o.status,
                               def |-> o.def, value |-> o.value])
                  rej == MILPRejects(o)
              IN  IF o.status = "raised" THEN Return(s, "SolverError")
                  ELSE IF rej = "TypeError" THEN Return(s, "TypeError")
                  ELSE IF rej = "True" THEN Return(s, "False")
                  ELSE MILPLoop(s, i + 1, label, env)
         ELSE MILPLoop(self, i + 1, label, env)

\* lines 329-334: bound.run(bl, bu, label, i) for every i # label; nothing
\* catches what run raises
RECURSIVE SDPLoop(_, _, _, _, _)
SDPLoop(self, i, label, blbu, env) ==
    IF i >= NumClasses THEN Return(self, "True")
    ELSE IF i # label
         THEN LET o == Answer(env, i)
                  s == Log(self, [op |-> "run", label |-> label, i |-> i,
                                  reads |-> blbu, status |-> o.status,
                                  def |-> o.def, value |-> o.value])
                  rej == SDPRejects(o)
              IN  IF o.status = "raised" THEN Return(s, "SolverError")
                  ELSE IF rej = "TypeError" THEN Return(s, "TypeError")
                  ELSE IF rej = "True" THEN Return(s, "False")
                  ELSE SDPLoop(s, i + 1, label, blbu, env)
         ELSE SDPLoop(self, i + 1, label, blbu, env)

\* ------------------------------------------------------------ verify
\* The assertion dropped
NormOK_unchecked(norm_type) == TRUE

\* assert norm_type == 'inf'
NormOK(norm_type) == norm_type = "inf"

\* The instance initialized again as long as its engine has no bounds yet
NeedsInit_unused(self) ==
    IF self.new_model = NoneV \/ self.bound = NoneV THEN TRUE
    ELSE ~self.bound.cur.set

\* if self.new_model is None: init at the first time
NeedsInit(self) == self.new_model = NoneV

\* The clean-prediction check dropped
CleanMatches_always(clean_pred, label) == TRUE

\* clean_pred == label
CleanMatches(clean_pred, label) == clean_pred = label

\* CleanAdaptor.verify: the clean prediction alone; norm_type is not looked at
CleanAdaptor_verify(self, input, label, norm_type, radius) ==
    LET s == CleanPred(self, input)
    IN  Return(s, IF CleanMatches(Predict(self.model, input), label)
                  THEN "True" ELSE "False")

\* The radius looked at before the clean prediction
PGDAdaptor_verify_radiusfirst(self, input, label, norm_type, radius, adv) ==
    IF ~NormOK(norm_type) THEN Return(self, "AssertionError")
    ELSE LET s == CleanPred(self, input)
         IN  IF radius = 0 THEN Return(s, "True")
             ELSE IF ~CleanMatches(Predict(self.model, input), label) THEN Return(s, "False")
             ELSE LET a == Log(s, [op |-> "attack", input |-> input, eps |-> radius,
                                   adv_pred |-> adv])
                  IN  Return(a, IF adv = label THEN "True" ELSE "False")

\* PGDAdaptor.verify: adv is the class the model gives the attack's result
PGDAdaptor_verify(self, input, label, norm_type, radius, adv) ==
    IF ~NormOK(norm_type) THEN Return(self, "AssertionError")
    ELSE LET s == CleanPred(self, input)
         IN  IF ~CleanMatches(Predict(self.model, input), label) THEN Return(s, "False")
             ELSE IF radius = 0 THEN Return(s, "True")
             ELSE LET a == Log(s, [op |-> "attack", input |-> input, eps |-> radius,
                                   adv_pred |-> adv])
                  IN  Return(a, IF adv = label THEN "True" ELSE "False")

\* The verdict remembered by way of the engine's bounds: a call that finds
\* the bounds of its own input and radius in the engine returns True at once
RealAdaptorBase_verify_memo(self, input, label, norm_type, radius, env, fault) ==
    IF ~NormOK(norm_type) THEN Return(self, "AssertionError")
    ELSE LET i0 == IF NeedsInit(self)
                   THEN LET b == build_new_model(self, input, fault)
                        IN  IF Raised(b) THEN b
                            ELSE FastLinIBPAdaptor_prepare_solver(b, input.shape, fault)
                   ELSE self
             s == CleanPred(i0, input)
         IN  IF Raised(i0) THEN i0
             ELSE IF ~CleanMatches(Predict(self.model, input), label) THEN Return(s, "False")
             ELSE IF s.bound = NoneV THEN Return(s, "AttributeError")
             ELSE LET m_radius == MRadius(radius, self.coef)
                      x == Flatten(input_preprocess(self, input))
                      c == calculate_bound(s, "bound", x, m_radius)
                  IN  IF s.bound.cur = c.bound.cur THEN Return(s, "True")
                      ELSE BoundLoop(c, 0, label, env)

\* RealAdaptorBase.verify, which FastLinIBPAdaptor inherits
RealAdaptorBase_verify(self, input, label, norm_type, radius, env, fault) ==
    IF ~NormOK(norm_type) THEN Return(self, "AssertionError")
    ELSE LET i0 == IF NeedsInit(self)
                   THEN LET b == build_new_model(self, input, fault)
                        IN  IF Raised(b) THEN b
                            ELSE FastLinIBPAdaptor_prepare_solver(b, input.shape, fault)
                   ELSE self
             s == CleanPred(i0, input)
         IN  IF Raised(i0) THEN i0
             ELSE IF ~CleanMatches(Predict(self.model, input), label) THEN Return(s, "False")
             ELSE IF s.bound = NoneV THEN Return(s, "AttributeError")
             ELSE LET m_radius == MRadius(radius, self.coef)
                      x == Flatten(input_preprocess(self, input))
                      c == calculate_bound(s, "bound", x, m_radius)
                  IN  BoundLoop(c, 0, label, env)

\* IBPAdaptor.verify: no build_new_model, and the input is not flattened
IBPAdaptor_verify(self, input, label, norm_type, radius, env, fault) ==
    IF ~NormOK(norm_type) THEN Return(self, "AssertionError")
    ELSE LET i0 == IF NeedsInit(self)
                   THEN IBPAdaptor_prepare_solver(self, input.shape, fault)
                   ELSE self
             s == CleanPred(i0, input)
         IN  IF Raised(i0) THEN i0
             ELSE IF ~CleanMatches(Predict(self.model, input), label) THEN Return(s, "False")
             ELSE IF s.bound = NoneV THEN Return(s, "AttributeError")
             ELSE LET m_radius == MRadius(radius, self.coef)
                      x == input_preprocess(self, input)
                      c == calculate_bound(s, "bound", x, m_radius)
                  IN  BoundLoop(c, 0, label, env)

\* MILPAdaptor.verify
MILPAdaptor_verify(self, input, label, norm_type, radius, env, fault) ==
    IF ~NormOK(norm_type) THEN Return(self, "AssertionError")
    ELSE LET i0 == IF NeedsInit(self)
                   THEN LET b == build_new_model(self, input, fault)
                        IN  IF Raised(b) THEN b
                            ELSE MILPAdaptor_prepare_solver(b, input.shape, fault)
                   ELSE self
             s == CleanPred(i0, input)
         IN  IF Raised(i0) THEN i0
             ELSE IF ~CleanMatches(Predict(self.model, input), label) THEN Return(s, "False")
             ELSE IF s.prebound = NoneV THEN Return(s, "AttributeError")
             ELSE LET m_radius == MRadius(radius, self.coef)
                      x == Flatten(input_preprocess(self, input))
                      p == calculate_bound(s, "prebound", x, m_radius)
                  IN  IF p.bound = NoneV THEN Return(p, "AttributeError")
                      ELSE MILPLoop(construct(p, x, m_radius), 0, label, env)

\* PercySDPAdaptor.verify: bl, bu are taken from prebound.l, prebound.u once,
\* before the loop
PercySDPAdaptor_verify(self, input, label, norm_type, radius, env, fault) ==
    IF ~NormOK(norm_type) THEN Return(self, "AssertionError")
    ELSE LET i0 == IF NeedsInit(self)
                   THEN LET b == build_new_model(self, input, fault)
                        IN  IF Raised(b) THEN b
                            ELSE PercySDPAdaptor_prepare_solver(b, input.shape, fault)
                   ELSE self
             s == CleanPred(i0, input)
         IN  IF Raised(i0) THEN i0
             ELSE IF ~CleanMatches(Predict(self.model, input), label) THEN Return(s, "False")
             ELSE IF s.prebound = NoneV THEN Return(s, "AttributeError")
             ELSE LET m_radius == MRadius(radius, self.coef)
                      x == Flatten(input_preprocess(self, input))
                      c == calculate_bound(s, "prebound", x, m_radius)
                      blbu == c.prebound.cur
                  IN  IF c.bound = NoneV THEN Return(c, "AttributeError")
                      ELSE SDPLoop(c, 0, label, blbu, env)

\* ------------------------------------------------------- environment
\* What a bound engine can answer to bound.verify(label, i)
BoundAnswers == { [ok |-> TRUE], [ok |-> FALSE] }

\* How a solve can end.  It returns and leaves prob.status and prob.value:
\* status 'optimal' with a number or with None (def = FALSE), another status
\* with a number or with None.  Or it raises (status "raised" stands for the
\* solver's exception: nothing is reported) and the exception leaves verify.
Outcomes ==
    { [status |-> "optimal", def |-> TRUE, value |-> v] : v \in {-1, 0, 1} }
    \cup { [status |-> "optimal", def |-> FALSE, value |-> 0],
           [status |-> "infeasible", def |-> FALSE, value |-> 0],
           [status |-> "optimal_inaccurate", def |-> TRUE, value |-> 0],
           [status |-> "raised", def |-> FALSE, value |-> 0] }

Answers(k) == IF k \in SolverKinds THEN Outcomes ELSE BoundAnswers

\* The backend's own notion of a certified pair (section 4.3 of the design)
Certified(k, a) ==
    CASE k = "MILPAdaptor" -> a.status = "optimal" /\ a.def /\ a.value >= 0
      [] k = "PercySDPAdaptor" -> a.status = "optimal" /\ a.def /\ a.value <= 0
      [] OTHER -> a.ok

\* The answer standing for a query nobody makes
Unasked(k) ==
    IF k \in SolverKinds THEN [status |-> "infeasible", def |-> FALSE, value |-> 0]
    ELSE [ok |-> FALSE]

UnaskedSeq(k, n) == [j \in 1 .. n |-> Unasked(k)]

\* The answers for classes i .. NumClasses-1 of one call.  Every answer is
\* drawn for every class up to the first pair that is not certified; the
\* pairs behind it, and the pair (label, label), are queries a loop that
\* stops at the first failure never makes.
RECURSIVE Envs(_, _, _)
Envs(k, i, label) ==
    IF i >= NumClasses THEN { << >> }
    ELSE IF i = label
         THEN { <<Unasked(k)>> \o t : t \in Envs(k, i + 1, label) }
         ELSE { <<a>> \o t : a \in { b \in Answers(k) : Certified(k, b) },
                             t \in Envs(k, i + 1, label) }
              \cup { <<a>> \o UnaskedSeq(k, NumClasses - i - 1) :
                         a \in { b \in Answers(k) : ~Certified(k, b) } }

EnvTable == [k \in RealKinds, label \in Classes |-> Envs(k, 0, label)]

\* the engines are only asked anything in a call that passes the norm check
\* and the clean-prediction check
EnvFor(k, m, input, label, norm_type) ==
    IF norm_type = "inf" /\ Predict(m, input) = label
    THEN EnvTable[k, label]
    ELSE { UnaskedSeq(k, NumClasses) }

\* --------------------------------------------------------- the machine
Self ==
    [model |-> model, coef |-> coef, in_min |-> in_min, in_max |-> in_max,
     new_model |-> new_model, bound |-> bound, prebound |-> prebound,
     trace |-> << >>, ret |-> "none"]

InitOps == {"model_transform", "prepare_solver"}
IsInitOp(e) == e.op \in InitOps

\* the instance and the record of the call after a verify call that ran as r
Finish(r, input, label, norm_type, radius) ==
    LET runs == SelectSeq(r.trace, IsInitOp)
    IN  /\ model' = r.model
        /\ coef' = r.coef
        /\ in_min' = r.in_min
        /\ in_max' = r.in_max
        /\ new_model' = r.new_model
        /\ bound' = r.bound
        /\ prebound' = r.prebound
        /\ trace' = r.trace
        /\ ret' = r.ret
        /\ call' = [input |-> input, label |-> label, norm_type |-> norm_type,
                    radius |-> radius]
        /\ ncalls' = ncalls + 1
        /\ firstInf' = IF firstInf = 0 /\ norm_type = "inf" THEN ncalls + 1
                       ELSE firstInf
        /\ initlog' = initlog \o [j \in 1 .. Len(runs) |->
                                    [op |-> runs[j].op, call |-> ncalls + 1]]
        /\ solve_reads' = solve_reads \cup
                (IF \E k \in DOMAIN r.trace : r.trace[k].op \in {"solve", "run"}
                 THEN {solve_time} ELSE {})
        /\ UNCHANGED <<kind, px, solve_time>>

NoCall ==
    [input |-> [shape |-> << >>, pix |-> 0], label |-> 0, norm_type |-> "none",
     radius |-> 0]

\* The constructors: BasicAdaptor.__init__ for all, RealAdaptorBase.__init__
\* behind it for the four real adaptors, the write of cp.settings.SOLVE_TIME
\* in those of MILPAdaptor and PercySDPAdaptor
Constructed ==
    /\ coef = BasicAdaptor_init(model)
    /\ in_min = IF kind \in RealKinds THEN RealAdaptorBase_init(model).in_min ELSE NoneV
    /\ in_max = IF kind \in RealKinds THEN RealAdaptorBase_init(model).in_max ELSE NoneV
    /\ new_model = NoneV
    /\ bound = NoneV
    /\ prebound = NoneV
    /\ ncalls = 0
    /\ firstInf = 0
    /\ initlog = << >>
    /\ call = NoCall
    /\ trace = << >>
    /\ ret = "none"
    /\ px = NoPixel
    /\ solve_time = IF kind \in SolverKinds THEN DefaultTimeout ELSE 0
    /\ solve_reads = {}

Init ==
    /\ kind \in Kinds
    /\ model \in Models
    /\ Constructed

CleanVerify ==
    /\ kind = "CleanAdaptor"
    /\ ncalls < MaxCalls
    /\ \E input \in Inputs, label \in Classes, norm_type \in Norms, radius \in Radii :
          \E r \in { CleanAdaptor_verify(Self, input, label, norm_type, radius) } :
                Finish(r, input, label, norm_type, radius)

PGDVerify ==
    /\ kind = "PGDAdaptor"
    /\ ncalls < MaxCalls
    /\ \E input \in Inputs, label \in Classes, norm_type \in Norms, radius \in Radii :
          \E adv \in (IF norm_type = "inf" /\ Predict(model, input) = label /\ radius # 0
                      THEN Classes ELSE {0}) :
             \E r \in { PGDAdaptor_verify(Self, input, label, norm_type, radius, adv) } :
                Finish(r, input, label, norm_type, radius)

FastLinVerify ==
    /\ kind = "FastLinIBPAdaptor"
    /\ ncalls < MaxCalls
    /\ \E input \in Inputs, label \in Classes, norm_type \in Norms, radius \in Radii :
          \E env \in EnvFor(kind, model, input, label, norm_type) :
             \E r \in { RealAdaptorBase_verify(Self, input, label, norm_type, radius, env, "none") } :
                Finish(r, input, label, norm_type, radius)

IBPVerify ==
    /\ kind = "IBPAdaptor"
    /\ ncalls < MaxCalls
    /\ \E input \in Inputs, label \in Classes, norm_type \in Norms, radius \in Radii :
          \E env \in EnvFor(kind, model, input, label, norm_type) :
             \E r \in { IBPAdaptor_verify(Self, input, label, norm_type, radius, env, "none") } :
                Finish(r, input, label, norm_type, radius)

MILPVerify ==
    /\ kind = "MILPAdaptor"
    /\ ncalls < MaxCalls
    /\ \E input \in Inputs, label \in Classes, norm_type \in Norms, radius \in Radii :
          \E env \in EnvFor(kind, model, input, label, norm_type) :
             \E r \in { MILPAdaptor_verify(Self, input, label, norm_type, radius, env, "none") } :
                Finish(r, input, label, norm_type, radius)

SDPVerify ==
    /\ kind = "PercySDPAdaptor"
    /\ ncalls < MaxCalls
    /\ \E input \in Inputs, label \in Classes, norm_type \in Norms, radius \in Radii :
          \E env \in EnvFor(kind, model, input, label, norm_type) :
             \E r \in { PercySDPAdaptor_verify(Self, input, label, norm_type, radius, env, "none") } :
                Finish(r, input, label, norm_type, radius)

Next ==
    \/ CleanVerify
    \/ PGDVerify
    \/ FastLinVerify
    \/ IBPVerify
    \/ MILPVerify
    \/ SDPVerify

Spec == Init /\ [][Next]_vars

\* ============================================================ claims
BoundPropKinds == {"FastLinIBPAdaptor", "IBPAdaptor"}
Verdicts == {"True", "False"}
QueryOps == {"verify", "solve", "run"}
EngineOps == {"calculate_bound", "construct", "prepare_verify", "verify", "solve",
              "run", "attack"}

Called == ncalls > 0
CleanOK == Predict(model, call.input) = call.label
Others == Classes \ {call.label}
Events(ops) == { k \in DOMAIN trace : trace[k].op \in ops }

\* the pairwise query of class i in the last call was made and certified
BoundCertifies(i) ==
    \E k \in Events({"verify"}) :
        trace[k].label = call.label /\ trace[k].i = i /\ trace[k].ok

\* C1: in FastLinIBPAdaptor and IBPAdaptor, a verify call with norm_type
\* 'inf' whose clean prediction equals label returns True exactly when
\* bound.verify(label, i) certifies for every class i # label (so it returns
\* False exactly when some query it made did not certify), and the pair
\* (label, label) is never queried.
C1_AllPairsVerdict ==
    (kind \in BoundPropKinds /\ Called /\ call.norm_type = "inf" /\ CleanOK) =>
        /\ ret \in Verdicts
        /\ (ret = "True") <=> (\A i \in Others : BoundCertifies(i))
        /\ (ret = "False") <=> (\E k \in Events({"verify"}) : ~trace[k].ok)
        /\ \A k \in Events({"verify"}) :
              trace[k].label = call.label /\ trace[k].i # call.label

\* one other class certified, another one not: the call returns False
C1_Witness ==
    /\ kind \in BoundPropKinds /\ call.norm_type = "inf" /\ CleanOK
    /\ ret = "False"
    /\ \E j, k \in Events({"verify"}) : trace[j].ok /\ ~trace[k].ok

\* C2 as stated: in every adaptor but CleanAdaptor, a verify call whose clean
\* prediction differs from label returns False and asks the engines nothing.
C2_Original ==
    (kind # "CleanAdaptor" /\ Called /\ ~CleanOK) =>
        (ret = "False" /\ Events(EngineOps) = {})

\* C2, amended: in every adaptor but CleanAdaptor, a verify call with
\* norm_type 'inf' whose clean prediction differs from label returns False,
\* whatever the radius, and asks the engines nothing: no calculate_bound, no
\* pairwise verify, no construct / prepare_verify / run, no solve, no attack.
C2_MisclassifiedIsFalse ==
    (kind # "CleanAdaptor" /\ Called /\ call.norm_type = "inf" /\ ~CleanOK) =>
        (ret = "False" /\ Events(EngineOps) = {})

\* a misclassified input at a positive radius, on an initialized instance
C2_Witness ==
    /\ kind \in SolverKinds /\ call.norm_type = "inf" /\ ~CleanOK
    /\ call.radius > 0 /\ ncalls = 2 /\ bound # NoneV
    /\ ret = "False"

\* C3: verify(input, label, 'inf', 0) returns the clean-correctness check,
\* in every adaptor, whatever the engine or the solver answers.
C3_ZeroRadiusIdentity ==
    (Called /\ call.norm_type = "inf" /\ call.radius = 0) =>
        /\ ret \in Verdicts
        /\ (ret = "True") <=> CleanOK

\* C4: in every adaptor but CleanAdaptor, a verify call with a norm_type
\* other than 'inf' ends in an AssertionError, having evaluated nothing and
\* asked nothing, and leaves new_model, bound and prebound as they were.
C4_NormRejected ==
    [][(kind # "CleanAdaptor" /\ ncalls' = ncalls + 1 /\ call'.norm_type # "inf") =>
          /\ ret' = "AssertionError"
          /\ trace' = << >>
          /\ new_model' = new_model /\ bound' = bound /\ prebound' = prebound
          /\ initlog' = initlog]_vars

\* a rejected first call leaves the instance uninitialized
C4_Witness ==
    /\ kind \in RealKinds /\ ncalls = 1 /\ call.norm_type = "2"
    /\ ret = "AssertionError" /\ new_model = NoneV /\ bound = NoneV

InitRun(op) == [op |-> op, call |-> firstInf]

\* C5: in every RealAdaptorBase adaptor, once a verify call with norm_type
\* 'inf' has been made, model_transform has run exactly once and then
\* prepare_solver exactly once, both in the first such call, and no later
\* call has run either of them again.
C5_InitOnce ==
    (kind \in RealKinds /\ firstInf > 0) =>
        initlog = << InitRun("model_transform"), InitRun("prepare_solver") >>

\* C6: a verify call on an initialized adaptor whose input shape differs from
\* the shape the engines were built for ends in an error and uses neither
\* the cached model nor the cached engines.
C6_ShapeMismatchRejected ==
    (/\ kind \in RealKinds /\ Called /\ call.norm_type = "inf"
     /\ bound # NoneV /\ bound.in_shape # call.input.shape) =>
        (ret \notin Verdicts /\ Events(EngineOps) = {})

\* C7: in MILPAdaptor and PercySDPAdaptor, a verify call that made a solve
\* returns a boolean and raises nothing, however the solves ended (status
\* 'optimal' or another, value defined or not), and returns False when one
\* of them did not report status 'optimal'.
C7_SolveNeverRaises ==
    kind \in SolverKinds =>
        \A k \in Events({"solve", "run"}) :
            /\ ret \in Verdicts
            /\ trace[k].status # "optimal" => ret = "False"

\* the solve recorded at trace[k] gave the test of line 280 / 332 nothing to
\* decide on: it raised, or it reported 'optimal' without a value
Unanswered(k) ==
    /\ trace[k].op \in {"solve", "run"}
    /\ \/ trace[k].status = "raised"
       \/ trace[k].status = "optimal" /\ ~trace[k].def

\* the solve for class i in the last call: made, 'optimal', value on the
\* certifying side of 0 (sign = 1: value >= 0, sign = -1: value <= 0)
SolveCertifies(op, i, sign) ==
    \E k \in Events({op}) :
        /\ trace[k].label = call.label /\ trace[k].i = i
        /\ trace[k].status = "optimal" /\ trace[k].def
        /\ sign * trace[k].value >= 0

\* C8: with norm_type 'inf' and a correct clean prediction, MILPAdaptor.verify
\* returns True exactly when every class i # label has status 'optimal' and
\* value >= 0, PercySDPAdaptor.verify exactly when every class i # label has
\* status 'optimal' and value <= 0; a value of 0 certifies in both.
C8_SignConventions ==
    (kind \in SolverKinds /\ Called /\ call.norm_type = "inf" /\ CleanOK) =>
        /\ ret \in Verdicts \/ \E k \in Events({"solve", "run"}) : Unanswered(k)
        /\ kind = "MILPAdaptor" =>
              /\ (ret = "True") <=> (\A i \in Others : SolveCertifies("solve", i, 1))
              /\ (ret = "False") <=>
                    (\E k \in Events({"solve"}) :
                        /\ ~Unanswered(k)
                        /\ trace[k].status # "optimal" \/ trace[k].value < 0)
        /\ kind = "PercySDPAdaptor" =>
              /\ (ret = "True") <=> (\A i \in Others : SolveCertifies("run", i, -1))
              /\ (ret = "False") <=>
                    (\E k \in Events({"run"}) :
                        /\ ~Unanswered(k)
                        /\ trace[k].status # "optimal" \/ trace[k].value > 0)

\* an SDP call certified with a value of exactly 0 for one pair and a
\* negative value for another
C8_Witness ==
    /\ kind = "PercySDPAdaptor" /\ call.norm_type = "inf" /\ CleanOK
    /\ ret = "True"
    /\ \E j, k \in Events({"run"}) : trace[j].value = 0 /\ trace[k].value < 0

\* the pairwise query recorded at trace[k] did not certify its pair
QueryFailed(k) ==
    CASE trace[k].op = "verify" -> ~trace[k].ok
      [] trace[k].op = "solve" ->
            ~(trace[k].status = "optimal" /\ trace[k].def /\ trace[k].value >= 0)
      [] trace[k].op = "run" ->
            ~(trace[k].status = "optimal" /\ trace[k].def /\ trace[k].value <= 0)

ThisChannels ==
    IF model.norm /\ call.input.shape[1] = 1 THEN Len(model.orig_means)
    ELSE call.input.shape[1]
ThisInput ==
    [shape |-> IF kind = "IBPAdaptor"
               THEN << ThisChannels, call.input.shape[2], call.input.shape[3] >>
               ELSE << ThisChannels * call.input.shape[2] * call.input.shape[3] >>,
     pix |-> call.input.pix,
     normalized |-> model.norm]
ThisRadius == << call.radius * UnitCoef, coef >>
ThisBounds == [set |-> TRUE, input |-> ThisInput, radius |-> ThisRadius]

\* trace[j] computes bounds, on the engine named which, for the last call's
\* input and radius
ComputesBounds(j, which) ==
    /\ trace[j].op = "calculate_bound" /\ trace[j].on = which
    /\ trace[j].input = ThisInput /\ trace[j].radius = ThisRadius

\* C10: every pairwise query of a verify call reads bounds computed earlier
\* in that call for that call's input and radius.  FastLin and IBP:
\* calculate_bound, then bound.verify.  MILP: prebound.calculate_bound, then
\* construct with that prebound's l, u, then prepare_verify and solve.
\* SDP: prebound.calculate_bound, then run with the bounds of that pass.
C10_FreshBounds ==
    kind \in RealKinds =>
        \A k \in Events(QueryOps \cup {"prepare_verify"}) :
            /\ trace[k].reads = ThisBounds
            /\ kind \in BoundPropKinds =>
                  \E j \in 1 .. (k - 1) : ComputesBounds(j, "bound")
            /\ kind = "PercySDPAdaptor" =>
                  \E j \in 1 .. (k - 1) : ComputesBounds(j, "prebound")
            /\ kind = "MILPAdaptor" =>
                  \E j \in 1 .. (k - 1) :
                      /\ ComputesBounds(j, "prebound")
                      /\ \E c \in (j + 1) .. (k - 1) :
                            /\ trace[c].op = "construct"
                            /\ trace[c].lu = ThisBounds
                            /\ trace[c].input = ThisInput
                            /\ trace[c].radius = ThisRadius

\* queries in a second call, on engines built in the first call for an
\* input of another shape
C10_Witness ==
    /\ kind \in SolverKinds /\ ncalls = 2 /\ firstInf = 1
    /\ bound.in_shape # call.input.shape
    /\ Cardinality(Events(QueryOps)) >= 2

\* ---- history of an instance
\* verify of an adaptor of class k
VerifyWith(k, self, input, label, norm_type, radius, env, fault) ==
    CASE k = "FastLinIBPAdaptor" ->
            RealAdaptorBase_verify(self, input, label, norm_type, radius, env, fault)
      [] k = "IBPAdaptor" ->
            IBPAdaptor_verify(self, input, label, norm_type, radius, env, fault)
      [] k = "MILPAdaptor" ->
            MILPAdaptor_verify(self, input, label, norm_type, radius, env, fault)
      [] k = "PercySDPAdaptor" ->
            PercySDPAdaptor_verify(self, input, label, norm_type, radius, env, fault)

\* the same, no collaborator raising
VerifyAs(k, self, input, label, norm_type, radius, env) ==
    VerifyWith(k, self, input, label, norm_type, radius, env, "none")

\* an instance of class k around model m as its constructor leaves it
Fresh(m) ==
    [model |-> m, coef |-> BasicAdaptor_init(m),
     in_min |-> RealAdaptorBase_init(m).in_min,
     in_max |-> RealAdaptorBase_init(m).in_max,
     new_model |-> NoneV, bound |-> NoneV, prebound |-> NoneV,
     trace |-> << >>, ret |-> "none"]

\* what a call leaves in the instance
Kept(r) == [r EXCEPT !.trace = << >>, !.ret = "none"]

\* The instances of class k around model m that an earlier verify call has
\* initialized: any input, label and radius of that call, any answers to it
Histories ==
    [k \in RealKinds, m \in Models |->
        UNION { { Kept(VerifyAs(k, Fresh(m), x, l, "inf", r, e)) :
                    x \in Inputs, r \in Radii, e \in EnvTable[k, l] } :
                l \in Classes }
        \cup { Kept(VerifyAs(k, Fresh(m), x, l, "inf", r, UnaskedSeq(k, NumClasses))) :
            x \in Inputs, l \in Classes, r \in Radii }]

\* the answers the engines gave in the last call, by class
TraceEnv ==
    [j \in 1 .. NumClasses |->
        IF \E e \in Events(QueryOps) : trace[e].i = j - 1
        THEN LET e == CHOOSE e \in Events(QueryOps) : trace[e].i = j - 1
             IN  IF kind \in SolverKinds
                 THEN [status |-> trace[e].status, def |-> trace[e].def,
                       value |-> trace[e].value]
                 ELSE [ok |-> trace[e].ok]
        ELSE Unasked(kind)]

\* the last call found the instance initialized
WasInitialized == new_model # NoneV /\ Events(InitOps) = {}

\* C11: on an initialized instance the outcome of verify(input, label,
\* norm_type, radius) depends only on the arguments, the model and the
\* answers the engines give in that call: an instance of the same class
\* around the same model with any other history of calls ends the same call,
\* given the same answers, in the same way.
C11_HistoryIndependent ==
    (kind \in RealKinds /\ Called /\ WasInitialized) =>
        \A h \in Histories[kind, model] :
            VerifyAs(kind, h, call.input, call.label, call.norm_type,
                     call.radius, TraceEnv).ret = ret

\* a second call certified on engines that an earlier call built for an
\* input of another shape and left with the bounds of another radius
C11_Witness ==
    /\ kind \in RealKinds /\ ncalls = 2 /\ WasInitialized
    /\ ret = "True"
    /\ bound.in_shape # call.input.shape
    /\ \E h \in Histories[kind, model] :
          h.bound.in_shape = call.input.shape /\ h.bound.cur # bound.cur

\* ---- the fields of the instance
\* the object a field refers to, whatever bounds that engine holds inside
Ref(b) == IF b = NoneV THEN NoneV
          ELSE [cls |-> b.cls, model |-> b.model, in_shape |-> b.in_shape]

\* the step is a verify call that leaves the constructor's fields alone
KeepsConstructed ==
    /\ kind' = kind /\ model' = model /\ coef' = coef
    /\ in_min' = in_min /\ in_max' = in_max

\* the step assigns new_model, bound or prebound
WritesField ==
    \/ new_model' # new_model
    \/ Ref(bound') # Ref(bound)
    \/ Ref(prebound') # Ref(prebound)

\* C12 as stated: a verify call changes none of coef, in_min, in_max and the
\* model reference, and new_model, bound and prebound are written only
\* during the single initialization in the first call.
C12_Original ==
    [][(ncalls' = ncalls + 1) =>
          /\ KeepsConstructed
          /\ WritesField => ncalls' = 1]_vars

\* an earlier call began the initialization and model_transform raised in it
Retried ==
    new_model = NoneV /\ \E j \in DOMAIN initlog : initlog[j].op = "model_transform"

\* C12, amended: a verify call changes none of coef, in_min, in_max and the
\* model reference; new_model, bound and prebound are the only fields it
\* writes (the engines keep their bounds inside), each of them at most once,
\* from None, and only in the initialization block of a call that passed the
\* norm assertion and found new_model None: the first call to pass the
\* assertion, or a later one when model_transform raised in every earlier
\* one.  This holds also when a collaborator raises.
C12_Frame ==
    [][(ncalls' = ncalls + 1) =>
          /\ KeepsConstructed
          /\ WritesField =>
                /\ call'.norm_type = "inf"
                /\ new_model = NoneV /\ bound = NoneV /\ prebound = NoneV
                /\ new_model' # NoneV
                /\ firstInf' = ncalls' \/ Retried
                /\ \E k \in DOMAIN trace' : trace'[k].op \in InitOps
          /\ kind \notin RealKinds =>
                new_model' = NoneV /\ bound' = NoneV /\ prebound' = NoneV]_vars

\* an instance behind a normalization layer, initialized by its second call
\* after a first call that the norm assertion turned away
C12_Witness ==
    /\ kind \in SolverKinds /\ model.norm /\ ncalls = 2 /\ firstInf = 2
    /\ new_model # NoneV /\ bound # NoneV /\ prebound # NoneV
    /\ bound.cur.set
    /\ in_min = RealAdaptorBase_init(model).in_min /\ coef = SeqMin(model.orig_sds)

\* ---- the radius in normalized space
\* a = b for fractions
FracEq(a, b) == a[1] * b[2] = b[1] * a[2]

\* the radius r, measured in the normalized space of a channel of deviation sd
Scaled(r, sd) == <<r * UnitCoef, sd>>

\* C13: the radius handed to the bound engine (calculate_bound, and construct
\* in MILP) is the caller's radius divided by coef, where coef is the
\* smallest per-channel standard deviation behind a normalization layer and
\* 1.0 otherwise; it is at least the caller's radius measured in any
\* channel: radius / sd_c <= radius / coef.
C13_ScaledRadius ==
    kind \in RealKinds =>
        /\ model.norm => /\ \E c \in DOMAIN model.orig_sds : coef = model.orig_sds[c]
                         /\ \A c \in DOMAIN model.orig_sds : coef <= model.orig_sds[c]
        /\ ~model.norm => coef = UnitCoef
        /\ \A k \in Events({"calculate_bound", "construct"}) :
              /\ FracEq(trace[k].radius, Scaled(call.radius, coef))
              /\ model.norm => \A c \in DOMAIN model.orig_sds :
                    Leq(Scaled(call.radius, model.orig_sds[c]), trace[k].radius)

\* a positive radius handed to prebound.calculate_bound and to construct
\* behind a normalization layer whose second channel has the smallest sd
C13_Witness ==
    /\ kind = "MILPAdaptor" /\ model.norm /\ call.radius > 0
    /\ model.orig_sds[2] < model.orig_sds[1]
    /\ \E j, k \in DOMAIN trace :
          /\ trace[j].op = "calculate_bound" /\ trace[k].op = "construct"
          /\ ~Leq(trace[k].radius, Scaled(call.radius, model.orig_sds[1]))

\* ---- the input interval
\* An adaptor around any model of NormModels, as its constructor leaves it
InitNorm ==
    /\ kind \in RealKinds
    /\ model \in NormModels
    /\ Constructed

\* input_preprocess normalizes the pixel x of channel c of a raw input
NormalizePixel ==
    /\ \E c \in 1 .. 2, x \in 0 .. UnitCoef :
          px' = [set |-> TRUE, c |-> c, x |-> x, v |-> Normalize(model, c, x)]
    /\ UNCHANGED <<kind, model, coef, in_min, in_max, new_model, bound, prebound,
                   ncalls, firstInf, initlog, call, trace, ret, solve_time,
                   solve_reads>>

SpecNorm == InitNorm /\ [][NormalizePixel]_vars

\* C14: for any per-channel means and positive standard deviations,
\* in_min <= in_max and the interval [in_min, in_max] holds every normalized
\* value (x - mean_c) / sd_c of a raw pixel x in [0, 1] of any channel c;
\* without a normalization layer the interval is exactly [0.0, 1.0].
C14_IntervalEncloses ==
    /\ Leq(in_min, in_max)
    /\ px.set => Leq(in_min, px.v) /\ Leq(px.v, in_max)
    /\ ~model.norm => FracEq(in_min, <<0, 1>>) /\ FracEq(in_max, <<1, 1>>)

\* a pixel of the channel with the larger deviation that lies on the upper
\* end of the interval, behind a layer whose means are all above 1.0
C14_Witness ==
    /\ model.norm /\ px.set
    /\ SeqMin(model.orig_means) > UnitCoef
    /\ model.orig_sds[px.c] > SeqMin(model.orig_sds)
    /\ FracEq(px.v, in_max) /\ ~FracEq(in_min, px.v)

\* ---- the adaptors against one another
\* C15: whenever the verify of PGDAdaptor, of a bound-propagation adaptor, of
\* MILPAdaptor or of PercySDPAdaptor returns True for norm_type 'inf',
\* CleanAdaptor.verify returns True for the same input and label, whatever
\* the radius and the engines' answers.
C15_CleanIsNecessary ==
    (kind # "CleanAdaptor" /\ Called /\ call.norm_type = "inf" /\ ret = "True") =>
        CleanAdaptor_verify(Fresh(model), call.input, call.label, call.norm_type,
                            call.radius).ret = "True"

\* a True of a solver adaptor, every other class asked about and certified
C15_Witness ==
    /\ kind \in SolverKinds /\ call.norm_type = "inf" /\ ret = "True"
    /\ Cardinality(Events({"solve", "run"})) = NumClasses - 1
    /\ CleanOK

\* ---- the radius made smaller
\* the positive radii below that of the last call
SmallerRadii == { r \in 1 .. call.radius : r < call.radius }

\* What the solver can leave behind in the call made again with the label
\* of the last one: it returns from every solve, and an 'optimal' comes with
\* its value
Reported(k, label) ==
    { e \in EnvTable[k, label] :
        \A j \in 1 .. NumClasses : e[j].status # "raised" /\ (e[j].status = "optimal" => e[j].def) }

\* the last call made again with the radius r2, the solver answering e
Again(r2, e) ==
    VerifyAs(kind, Self, call.input, call.label, call.norm_type, r2, e)

\* C16: if verify(input, label, 'inf', r1) is True and r2 < r1, then
\* verify(input, label, 'inf', r2) on the same instance is True too.  Stated
\* for the MILP and SDP adaptors, for a positive r2 and for solves that
\* return with a status, the cases in which the verdict is that of lines
\* 276-282 and 329-333 alone.
C16_RadiusMonotone ==
    (kind \in SolverKinds /\ Called /\ call.norm_type = "inf" /\ ret = "True") =>
        \A r2 \in SmallerRadii :
            \A e \in Reported(kind, call.label) : Again(r2, e).ret = "True"

\* ---- the solver's time limit
\* Another MILPAdaptor or PercySDPAdaptor is constructed in the process: its
\* constructor writes its timeout to cp.settings.SOLVE_TIME
ConstructAnother ==
    /\ \E t \in Timeouts : solve_time' = t
    /\ UNCHANGED <<kind, model, coef, in_min, in_max, new_model, bound, prebound,
                   ncalls, firstInf, initlog, call, trace, ret, px, solve_reads>>

NextProcess == Next \/ ConstructAnother

SpecProcess == Init /\ [][NextProcess]_vars

\* C17: cp.settings.SOLVE_TIME is set once before the first solve and has
\* the same value at every solve afterwards, for any sequence of MILP / SDP
\* adaptor constructions and verify calls in one process.
C17_OneTimeLimit == Cardinality(solve_reads) <= 1

\* ---- collaborators that raise
\* the collaborators that the initialization of an adaptor of class k calls
FaultsOf(k) ==
    CASE k = "FastLinIBPAdaptor" -> {"model_transform", "bound"}
      [] k = "IBPAdaptor" -> {"bound"}
      [] k \in SolverKinds -> {"model_transform", "prebound", "bound"}

\* A verify call of a real adaptor in which model_transform or the
\* constructor of an engine raises: a call with norm_type 'inf' on an
\* instance whose new_model is None, the only calls that reach them.  The
\* exception leaves verify before anything is asked of the engines; the
\* fields assigned before it stay assigned.
FaultyVerify ==
    /\ kind \in RealKinds
    /\ ncalls < MaxCalls
    /\ NeedsInit(Self)
    /\ \E input \in Inputs, label \in Classes, radius \in Radii :
          \E fault \in FaultsOf(kind) :
             \E r \in { VerifyWith(kind, Self, input, label, "inf", radius,
                                   UnaskedSeq(kind, NumClasses), fault) } :
                Finish(r, input, label, "inf", radius)

NextFault == Next \/ FaultyVerify

SpecFault == Init /\ [][NextFault]_vars

\* C18: in every state reachable by verify calls, also by calls in which
\* model materialization or prepare_solver raises, new_model is set only if
\* bound, and prebound for MILP and SDP, is set too; so a call that skips
\* the initialization never finds an engine missing.
C18_Lifecycle ==
    kind \in RealKinds =>
        /\ new_model # NoneV =>
              /\ bound # NoneV
              /\ kind \in SolverKinds => prebound # NoneV
        /\ ret # "AttributeError"

====
